---- MODULE Spec2Model ----
(***************************************************************************)
(* ralph-tui remote listener: the token store (src/remote/token.ts), the   *)
(* WebSocket server with its per-connection authentication state machine   *)
(* (src/remote/server.ts) and the parts of the listen command that drive   *)
(* them (src/commands/listen.ts).                                          *)
(*                                                                         *)
(* An async function is split at its awaits: the code between two awaits   *)
(* runs to completion on the single JavaScript thread and is one action.   *)
(* The audit logger (src/remote/audit.ts) is not part of the sources; its  *)
(* entries are modelled from the specification (the log* operators).       *)
(***************************************************************************)
EXTENDS Integers, Sequences, FiniteSets, TLC

\* ------------------------------------------------------------------ bounds
\* Frames delivered to the server, over all connections.
MaxFrames == 2
\* Cap on tokenVersion: rotateToken is not started at this version.
MaxVersion == 2
\* Cap on the number of successful start() calls of the server instance.
MaxStarts == 2
\* Cap on the start() calls that threw and on the stop() calls that returned
\* at once, each.
MaxEarly == 1
\* Longest string tried as a stored secret or as a candidate of validateToken.
MaxLen == 2

\* The connections (ServerWebSocket objects) that may be accepted, numbered
\* in the order the server accepts them; each is accepted at most once.
Sockets == {"w1", "w2"}
Before(v, w) == v = "w1" /\ w = "w2"

\* The processes that call into the token store: p1 runs the listen command
\* and hosts the server, p2 is another run of the command (--rotate-token).
Procs == {"p1", "p2"}

\* ------------------------------------------------------------------ values
\* A string is the sequence of its character codes.
S1 == <<1, 2>>
S2 == <<2, 1>>
\* What generateToken() may return (randomBytes is a nondeterministic draw).
GenTokens == {S1, S2}

\* A JavaScript value found in the token field of an auth frame.
Str(s) == [k |-> "str", chars |-> s]
Undefined == [k |-> "undefined", chars |-> <<>>]
FrameTokens == {Str(S1), Str(S2), Undefined}

\* A token that is a JSON number; the strings of at most n characters.
Num == [k |-> "number", chars |-> <<>>]
Chars == {1, 2}
Strings(n) == UNION {[1..k -> Chars] : k \in 0..n}
\* Candidates handed to validateToken: strings (the empty one included), a
\* missing token, a token that is not a string.
Candidates == {Str(c) : c \in Strings(MaxLen)} \cup {Undefined, Num}

\* The correlation id a client puts in a request; "fresh" stands for a value
\* of generateMessageId().
RequestIds == {"r1"}
Fresh == "fresh"

\* Raw frames.  notjson: text JSON.parse rejects; null: the JSON text null;
\* scalar: JSON that parses to a value without a type member (a number, a
\* string, an array); env: an object with type, id and (for auth) token.
Env(type, id, token) == [kind |-> "env", type |-> type, id |-> id, token |-> token]
NotJson == [kind |-> "notjson", type |-> "-", id |-> "-", token |-> Undefined]
JsonNull == [kind |-> "null", type |-> "-", id |-> "-", token |-> Undefined]
JsonScalar == [kind |-> "scalar", type |-> "-", id |-> "-", token |-> Undefined]
Frames ==
    {NotJson, JsonNull, JsonScalar}
        \cup {Env(t, i, Undefined) : t \in {"ping", "status", "other"}, i \in RequestIds}
        \cup {Env("auth", i, tk) : i \in RequestIds, tk \in FrameTokens}

\* The requests a client may also send under a second correlation id.
MoreIds == {"r2"}
FramesTwo ==
    Frames
        \cup {Env(t, i, Undefined) : t \in {"ping", "status"}, i \in MoreIds}
        \cup {Env("auth", i, Str(S1)) : i \in MoreIds}

\* ------------------------------------------------------------ token store
\* The credential file: absent, truncated by a writeFile in progress, or a
\* RemoteConfig.
NoFile == [st |-> "absent", token |-> <<>>, version |-> 0]
Truncated == [st |-> "truncated", token |-> <<>>, version |-> 0]
Config(t, v) == [st |-> "config", token |-> t, version |-> v]
\* A file that exists but cannot be read or does not parse.
Corrupt == [st |-> "corrupt", token |-> <<>>, version |-> 0]

\* loadRemoteConfig: null when the file is absent or does not parse.
Null == [st |-> "null", token |-> <<>>, version |-> 0]
\* A mutation of loadRemoteConfig: the file is never found.
loadRemoteConfigNull(f) == Null
loadRemoteConfig(f) == IF f.st = "config" THEN f ELSE Null

\* config?.token as a condition.
HasToken(cfg) == cfg.st = "config" /\ Len(cfg.token) > 0

\* A mutation of CompareLoop: only the last position is compared.
CompareLoopLast(stored, provided, i, acc) ==
    acc \/ (stored[Len(stored)] # provided[Len(stored)])

\* The loop of validateToken over equal lengths: acc is (result # 0).
RECURSIVE CompareLoop(_, _, _, _)
CompareLoop(stored, provided, i, acc) ==
    IF i > Len(stored) THEN acc
    ELSE CompareLoop(stored, provided, i + 1, acc \/ (stored[i] # provided[i]))

\* A mutation of validateToken: equal lengths are taken for equal tokens.
validateTokenLengthOnly(cfg, tok) ==
    IF ~HasToken(cfg) THEN "false"
    ELSE IF tok.k # "str" THEN "throw"
    ELSE IF Len(tok.chars) # Len(cfg.token) THEN "false"
    ELSE "true"

\* A mutation of validateToken: the final test is result !== 0.
validateTokenInverted(cfg, tok) ==
    IF ~HasToken(cfg) THEN "false"
    ELSE IF tok.k # "str" THEN "throw"
    ELSE IF Len(tok.chars) # Len(cfg.token) THEN "false"
    ELSE IF CompareLoop(cfg.token, tok.chars, 1, FALSE) THEN "true" ELSE "false"

\* validateToken on the config it loaded: "true", "false", or "throw" (a
\* TypeError: providedToken.length of undefined).
validateToken(cfg, tok) ==
    IF ~HasToken(cfg) THEN "false"
    ELSE IF tok.k # "str" THEN "throw"
    ELSE IF Len(tok.chars) # Len(cfg.token) THEN "false"
    ELSE IF CompareLoop(cfg.token, tok.chars, 1, FALSE) THEN "false" ELSE "true"

\* The loop of validateToken counted: n passes so far.  Both loops of
\* validateToken run i from 0 to storedToken.length.
RECURSIVE LoopSteps(_, _, _)
LoopSteps(stored, i, n) ==
    IF i > Len(stored) THEN n ELSE LoopSteps(stored, i + 1, n + 1)

\* The comparison steps validateToken performs: none without a stored token
\* or when providedToken.length throws, else those of the loop of the branch
\* taken.
validateTokenSteps(cfg, tok) ==
    IF ~HasToken(cfg) THEN 0
    ELSE IF tok.k # "str" THEN 0
    ELSE IF Len(tok.chars) # Len(cfg.token) THEN LoopSteps(cfg.token, 1, 0)
    ELSE LoopSteps(cfg.token, 1, 0)

\* TOKEN_BYTES random bytes in base64url give a token of TokenLen characters.
TOKEN_BYTES == 32
TokenLen == (TOKEN_BYTES * 8 + 5) \div 6

\* The characters getTokenInfo keeps of the token, and the '...' it appends
\* (a character no token contains).
PreviewLen == 8
Ellipsis == <<0, 0, 0>>

Min(a, b) == IF a < b THEN a ELSE b

\* A mutation of Preview: the token is not cut.
PreviewWhole(token) == token \o Ellipsis

\* config.token.slice(0, 8) + '...'
Preview(token) == SubSeq(token, 1, Min(PreviewLen, Len(token))) \o Ellipsis


\* ------------------------------------------------------------------- wire
\* A message handed to ws.send.  createMessage gives every message a fresh
\* id; sendPong overwrites it with the request's.
Msg(type, id, ok, code, n) ==
    [type |-> type, id |-> id, ok |-> ok, code |-> code, clients |-> n]
AuthResponse(ok) ==
    Msg("auth_response", Fresh, ok, IF ok THEN "-" ELSE "Invalid token", 0)
ErrorMsg(code) == Msg("error", Fresh, FALSE, code, 0)
\* A mutation of Pong: the id createMessage generated is left in place.
PongFresh(requestId) == Msg("pong", Fresh, TRUE, "-", 0)
Pong(requestId) == Msg("pong", requestId, TRUE, "-", 0)
ServerStatus(n) == Msg("server_status", Fresh, TRUE, "-", n)

\* ------------------------------------------------------------------ audit
\* Audit entries, per clientId (the log is the interleaving of these
\* sequences); the start and stop events of the server are kept under Server.
Server == "server"
Entry(action, success, detail) ==
    [action |-> action, success |-> success, detail |-> detail]
logConnection(event) == Entry(event, TRUE, "-")
logAuth(success) == Entry("auth", success, IF success THEN "-" ELSE "Invalid token")
logFailure(action, detail) == Entry(action, FALSE, detail)
logServerEvent(event) == Entry(event, TRUE, "-")

\* ------------------------------------------------------------------ state
VARIABLES
    file,           \* the credential file remote.json
    caller,         \* per process, its call of getOrCreateToken / rotateToken in progress
    ret,            \* per process, what its last completed call returned
    options,        \* RemoteServerOptions of the server instance, once built
    server,         \* this.server # null
    host,           \* hostname the listening socket is bound to
    startedAt,      \* this.startedAt # null
    starts,         \* successful start() calls so far
    pending,        \* start() and stop() calls awaiting their audit write
    early,          \* start() calls that threw, stop() calls that returned at once
    proc,           \* the listen process: its signal handlers and its exit
    fired,          \* how often each observer in options was called
    sock,           \* each connection: "new", "open" or "closed"
    clients,        \* keys of this.clients
    authenticated,  \* ClientState.authenticated of each connection's state object
    h,              \* per connection, the frames received and their handlers
    out,            \* per connection, the messages sent to the client
    audit,          \* the audit log
    nframes         \* frames delivered so far

vars == <<file, caller, ret, options, server, host, startedAt, starts,
          pending, early, proc, fired,
          sock, clients, authenticated, h, out, audit, nframes>>

tokenVars == <<file, caller, ret>>
serverVars == <<server, host, startedAt, starts, pending, early, proc>>
connVars == <<sock, clients, authenticated, h, out, nframes, fired>>

Idle == [op |-> "idle", pc |-> "-", version |-> 0]
Unbuilt == [built |-> FALSE, hasToken |-> FALSE]

\* Values returned: { token, isNew } by getOrCreateToken, the new token by
\* rotateToken (isNew is not part of it and kept TRUE).
NoReturn == [op |-> "none", token |-> <<>>, isNew |-> FALSE]

\* The process before process.on('SIGINT' / 'SIGTERM', shutdown): registered
\* once the handlers are installed, waiting while a shutdown awaits
\* server.stop(), exited after process.exit or the default action of a signal.
NoSignals == [registered |-> FALSE, waiting |-> FALSE, exited |-> FALSE]
Returned(op, token, isNew) == [op |-> op, token |-> token, isNew |-> isNew]

\* Nothing called yet, the server not built.
InitRest ==
    /\ caller = [p \in Procs |-> Idle]
    /\ ret = [p \in Procs |-> NoReturn]
    /\ options = Unbuilt
    /\ server = FALSE
    /\ host = "none"
    /\ startedAt = FALSE
    /\ starts = 0
    /\ pending = [start |-> 0, stop |-> 0]
    /\ early = [startThrew |-> 0, stopReturned |-> 0]
    /\ proc = NoSignals
    /\ fired = [onStart |-> 0, onStop |-> 0,
                onConnect |-> [w \in Sockets |-> 0],
                onDisconnect |-> [w \in Sockets |-> 0]]
    /\ sock = [w \in Sockets |-> "new"]
    /\ clients = {}
    /\ authenticated = [w \in Sockets |-> FALSE]
    /\ h = [w \in Sockets |-> <<>>]
    /\ out = [w \in Sockets |-> <<>>]
    /\ audit = [c \in Sockets \cup {Server} |-> <<>>]
    /\ nframes = 0

Init ==
    /\ file \in {NoFile, Config(S1, 1)}
    /\ InitRest

\* ----------------------------------------------------- token operations
\* createRemoteServer after getOrCreateToken returned (token, isNew).
createRemoteServer(token, isNew) ==
    [built |-> TRUE, hasToken |-> (~isNew \/ Len(token) > 0)]

\* getOrCreateToken returns (token, isNew) to process p: createRemoteServer
\* builds the server from it, any other caller is handed the value.
Return(p, token, isNew) ==
    /\ caller' = [caller EXCEPT ![p] = Idle]
    /\ IF caller[p].op = "create"
       THEN options' = createRemoteServer(token, isNew) /\ UNCHANGED ret
       ELSE ret' = [ret EXCEPT ![p] = Returned("goc", token, isNew)]
            /\ UNCHANGED options

\* getOrCreateToken, from the call through the read of the file to the
\* return or to the await of saveRemoteConfig.  op is "create" when the
\* caller is createRemoteServer and "goc" otherwise.
getOrCreateTokenLoad(p, op) ==
    /\ caller[p] = Idle
    /\ op = "create" => ~options.built /\ \A q \in Procs : caller[q].op # "create"
    /\ LET config == loadRemoteConfig(file) IN
        IF HasToken(config)
        THEN /\ UNCHANGED caller
             /\ IF op = "create"
                THEN options' = createRemoteServer(config.token, FALSE)
                     /\ UNCHANGED ret
                ELSE ret' = [ret EXCEPT ![p] = Returned("goc", config.token, FALSE)]
                     /\ UNCHANGED options
        ELSE /\ caller' = [caller EXCEPT ![p] = [op |-> op, pc |-> "save", version |-> 1]]
             /\ UNCHANGED <<options, ret>>
    /\ UNCHANGED <<file, audit>>
    /\ UNCHANGED serverVars
    /\ UNCHANGED connVars

\* A mutation of NextVersion: the version is not incremented.
NextVersionSame(existingConfig) ==
    IF existingConfig.st = "config" THEN existingConfig.version ELSE 1

\* A mutation of NextVersion: every rotation starts over at version 1.
NextVersionOne(existingConfig) == 1

\* tokenVersion of the new config of rotateToken.
NextVersion(existingConfig) ==
    (IF existingConfig.st = "config" THEN existingConfig.version ELSE 0) + 1

\* rotateToken, from the call through the read of the file to the await of
\* saveRemoteConfig.
rotateTokenLoad(p) ==
    /\ caller[p] = Idle
    /\ file.version < MaxVersion
    /\ LET existingConfig == loadRemoteConfig(file) IN
        caller' = [caller EXCEPT ![p] =
            [op |-> "rot", pc |-> "save", version |-> NextVersion(existingConfig)]]
    /\ UNCHANGED <<file, ret, options, audit>>
    /\ UNCHANGED serverVars
    /\ UNCHANGED connVars

\* saveRemoteConfig: writeFile opens the file, which truncates it.
saveRemoteConfigOpen(p) ==
    /\ caller[p].pc = "save"
    /\ file' = Truncated
    /\ caller' = [caller EXCEPT ![p].pc = "write"]
    /\ UNCHANGED <<ret, options, audit>>
    /\ UNCHANGED serverVars
    /\ UNCHANGED connVars

\* saveRemoteConfig: the content is written and the call returns.  The new
\* token, drawn by generateToken before the save, is first seen here.
saveRemoteConfigWrite(p) ==
    /\ caller[p].pc = "write"
    /\ \E token \in GenTokens :
        /\ file' = Config(token, caller[p].version)
        /\ IF caller[p].op = "rot"
           THEN /\ caller' = [caller EXCEPT ![p] = Idle]
                /\ ret' = [ret EXCEPT ![p] = Returned("rot", token, TRUE)]
                /\ UNCHANGED options
           ELSE Return(p, token, TRUE)
    /\ UNCHANGED audit
    /\ UNCHANGED serverVars
    /\ UNCHANGED connVars

\* new RemoteServer(options), by a caller other than createRemoteServer.
Construct(hasToken) ==
    /\ ~options.built
    /\ \A p \in Procs : caller[p].op # "create"
    /\ options' = [built |-> TRUE, hasToken |-> hasToken]
    /\ UNCHANGED <<file, caller, ret, audit>>
    /\ UNCHANGED serverVars
    /\ UNCHANGED connVars


\* getTokenInfo by process p: { exists: false }, or exists with the preview
\* (kept in the fields isNew and token of the value returned).
getTokenInfo(p) ==
    /\ caller[p] = Idle
    /\ LET config == loadRemoteConfig(file) IN
        ret' = [ret EXCEPT ![p] =
                    IF HasToken(config)
                    THEN Returned("info", Preview(config.token), TRUE)
                    ELSE Returned("info", <<>>, FALSE)]
    /\ UNCHANGED <<file, caller, options, audit>>
    /\ UNCHANGED serverVars
    /\ UNCHANGED connVars

\* ------------------------------------------------------- server lifecycle
Loopback == "127.0.0.1"
AllInterfaces == "0.0.0.0"

\* The hostname start() passes to Bun.serve.
BindHost(hasToken) == IF hasToken THEN AllInterfaces ELSE Loopback

Push(log, c, e) == [log EXCEPT ![c] = Append(@, e)]

\* A mutation of Running: the instance never counts as running.
RunningNever(srv) == FALSE

\* A mutation of Running: the instance always counts as running.
RunningAlways(srv) == TRUE

\* The test on this.server that start() and stop() begin with.
Running(srv) == srv

\* start() up to its await of the audit write.
Start ==
    /\ options.built
    /\ ~Running(server)
    /\ starts < MaxStarts
    /\ server' = TRUE
    /\ host' = BindHost(options.hasToken)
    /\ startedAt' = TRUE
    /\ starts' = starts + 1
    /\ pending' = [pending EXCEPT !.start = @ + 1]
    /\ audit' = Push(audit, Server, logServerEvent("start"))
    /\ UNCHANGED <<options, early, proc>>
    /\ UNCHANGED tokenVars
    /\ UNCHANGED connVars

\* start() resumes after the audit write: onStart is called and the state
\* returned.
StartDone ==
    /\ pending.start > 0
    /\ pending' = [pending EXCEPT !.start = @ - 1]
    /\ fired' = [fired EXCEPT !.onStart = @ + 1]
    /\ UNCHANGED <<server, host, startedAt, starts, early, proc, options, audit>>
    /\ UNCHANGED <<sock, clients, authenticated, h, out, nframes>>
    /\ UNCHANGED tokenVars

\* start() on a running instance: throws 'Server is already running'.
StartRunning ==
    /\ options.built
    /\ Running(server)
    /\ early.startThrew < MaxEarly
    /\ early' = [early EXCEPT !.startThrew = @ + 1]
    /\ UNCHANGED <<server, host, startedAt, starts, pending, proc, options, audit>>
    /\ UNCHANGED tokenVars
    /\ UNCHANGED connVars

\* A mutation of CloseLog: the close handler finds the registry already
\* cleared and logs nothing.
CloseLogNone(log, ws) == log

\* The close handler for the connections in ws, each still registered: the
\* audit entries and the calls of onDisconnect.
CloseLog(log, ws) ==
    [c \in DOMAIN log |->
        IF c \in ws THEN Append(log[c], logConnection("disconnect")) ELSE log[c]]
CloseNotify(f, ws) ==
    [f EXCEPT !.onDisconnect = [w \in Sockets |-> IF w \in ws THEN @[w] + 1 ELSE @[w]]]

\* stop() up to its await of the audit write; ws.close() runs the close
\* handler of each registered connection before clients.clear().
StopRunning ==
    /\ options.built
    /\ Running(server)
    /\ sock' = [w \in Sockets |-> IF w \in clients THEN "closed" ELSE sock[w]]
    /\ clients' = {}
    /\ server' = FALSE
    /\ host' = "none"
    /\ pending' = [pending EXCEPT !.stop = @ + 1]
    /\ fired' = CloseNotify(fired, clients)
    /\ audit' = Push(CloseLog(audit, clients), Server, logServerEvent("stop"))
    /\ UNCHANGED <<startedAt, starts, early, options>>
    /\ UNCHANGED <<authenticated, h, out, nframes>>
    /\ UNCHANGED tokenVars

\* stop() called by any caller other than the shutdown handler of listen.
Stop == StopRunning /\ UNCHANGED proc

\* stop() resumes after the audit write: onStop is called.
StopDone ==
    /\ pending.stop > 0
    /\ pending' = [pending EXCEPT !.stop = @ - 1]
    /\ fired' = [fired EXCEPT !.onStop = @ + 1]
    /\ UNCHANGED <<server, host, startedAt, starts, early, proc, options, audit>>
    /\ UNCHANGED <<sock, clients, authenticated, h, out, nframes>>
    /\ UNCHANGED tokenVars

\* stop() on an instance that is not running: returns at once.
StopNotRunning ==
    /\ options.built
    /\ ~Running(server)
    /\ early.stopReturned < MaxEarly
    /\ early' = [early EXCEPT !.stopReturned = @ + 1]
    /\ UNCHANGED <<server, host, startedAt, starts, pending, proc, options, audit>>
    /\ UNCHANGED tokenVars
    /\ UNCHANGED connVars

\* executeListenCommand resumes after await server.start() and installs the
\* shutdown handler for SIGINT and SIGTERM.
ListenRegister ==
    /\ ~proc.exited
    /\ ~proc.registered
    /\ starts > 0
    /\ pending.start = 0
    /\ proc' = [proc EXCEPT !.registered = TRUE]
    /\ UNCHANGED <<server, host, startedAt, starts, pending, early, options, audit>>
    /\ UNCHANGED tokenVars
    /\ UNCHANGED connVars

\* SIGINT or SIGTERM while the server listens and no handler is installed
\* yet (start() awaits its audit write): the default action ends the process.
SignalDefault ==
    /\ ~proc.exited
    /\ ~proc.registered
    /\ server
    /\ proc' = [proc EXCEPT !.exited = TRUE]
    /\ UNCHANGED <<server, host, startedAt, starts, pending, early, options, audit>>
    /\ UNCHANGED tokenVars
    /\ UNCHANGED connVars

\* A signal with the handler installed and the server running: shutdown
\* calls server.stop() and awaits it.
SignalShutdown ==
    /\ ~proc.exited
    /\ proc.registered
    /\ StopRunning
    /\ proc' = [proc EXCEPT !.waiting = TRUE]

\* A signal with the handler installed and the server not running (a stop()
\* is in progress or done): this stop() returns at once and process.exit(0)
\* follows with no I/O in between.
SignalShutdownAgain ==
    /\ ~proc.exited
    /\ proc.registered
    /\ ~Running(server)
    /\ early' = [early EXCEPT !.stopReturned = @ + 1]
    /\ proc' = [proc EXCEPT !.exited = TRUE]
    /\ UNCHANGED <<server, host, startedAt, starts, pending, options, audit>>
    /\ UNCHANGED tokenVars
    /\ UNCHANGED connVars

\* The stop() a shutdown awaited has returned: process.exit(0).
ShutdownExit ==
    /\ ~proc.exited
    /\ proc.waiting
    /\ pending.stop = 0
    /\ proc' = [proc EXCEPT !.exited = TRUE]
    /\ UNCHANGED <<server, host, startedAt, starts, pending, early, options, audit>>
    /\ UNCHANGED tokenVars
    /\ UNCHANGED connVars

\* getState()
NoState == [running |-> FALSE, host |-> "none", connectedClients |-> 0]
\* A mutation of getState: every connection ever accepted is counted.
getStateAccepted ==
    IF ~server \/ ~startedAt THEN NoState
    ELSE [running |-> TRUE, host |-> BindHost(options.hasToken),
          connectedClients |-> Cardinality({w \in Sockets : sock[w] # "new"})]

\* The state of a running server: connectedClients is this.clients.size.
getState ==
    IF ~server \/ ~startedAt THEN NoState
    ELSE [running |-> TRUE, host |-> BindHost(options.hasToken),
          connectedClients |-> Cardinality(clients)]

\* ------------------------------------------------------------ connections
\* websocketHandler.open
Open(w) ==
    /\ server
    /\ sock[w] = "new"
    /\ \A v \in Sockets : Before(v, w) => sock[v] # "new"
    /\ sock' = [sock EXCEPT ![w] = "open"]
    /\ clients' = clients \cup {w}
    /\ authenticated' = [authenticated EXCEPT ![w] = FALSE]
    /\ audit' = Push(audit, w, logConnection("connect"))
    /\ fired' = [fired EXCEPT !.onConnect[w] = @ + 1]
    /\ UNCHANGED <<h, out, nframes, options>>
    /\ UNCHANGED tokenVars
    /\ UNCHANGED serverVars

\* websocketHandler.close, the peer having closed the connection.
Close(w) ==
    /\ sock[w] = "open"
    /\ sock' = [sock EXCEPT ![w] = "closed"]
    /\ clients' = clients \ {w}
    /\ audit' = CloseLog(audit, clients \cap {w})
    /\ fired' = CloseNotify(fired, clients \cap {w})
    /\ UNCHANGED <<authenticated, h, out, nframes, options>>
    /\ UNCHANGED tokenVars
    /\ UNCHANGED serverVars

\* ------------------------------------------------------------ the router
\* message.type of a parsed frame that is not null.
MsgType(f) == IF f.kind = "env" THEN f.type ELSE "undefined"

\* A mutation of Route: the authentication check is skipped.
RouteNoAuthCheck(f, authed) ==
    IF f.kind = "notjson" THEN "invalid_json"
    ELSE IF f.kind = "null" THEN "throw"
    ELSE IF MsgType(f) = "auth" THEN "auth"
    ELSE IF MsgType(f) = "ping" THEN "pong"
    ELSE IF MsgType(f) = "status" THEN "status"
    ELSE "unknown"

\* The branch handleMessage takes on a raw frame: JSON.parse, then the
\* tests on message.type and clientState.authenticated.  "throw" is the
\* TypeError of reading .type of null, which rejects the handler's promise.
Route(f, authed) ==
    IF f.kind = "notjson" THEN "invalid_json"
    ELSE IF f.kind = "null" THEN "throw"
    ELSE IF MsgType(f) = "auth" THEN "auth"
    ELSE IF MsgType(f) = "ping" THEN "pong"
    ELSE IF ~authed THEN "not_authenticated"
    ELSE IF MsgType(f) = "status" THEN "status"
    ELSE "unknown"

\* A mutation of Reply: the unauthenticated request is answered as an
\* unknown message.
ReplyUnknown(r, f, n) ==
    CASE r = "invalid_json" -> <<ErrorMsg("INVALID_JSON")>>
      [] r = "not_authenticated" -> <<ErrorMsg("UNKNOWN_MESSAGE")>>
      [] r = "pong" -> <<Pong(f.id)>>
      [] r = "status" -> <<ServerStatus(n)>>
      [] r = "unknown" -> <<ErrorMsg("UNKNOWN_MESSAGE")>>
      [] OTHER -> <<>>

\* The messages handleMessage sends on branch r before it returns or awaits;
\* n is this.clients.size.
Reply(r, f, n) ==
    CASE r = "invalid_json" -> <<ErrorMsg("INVALID_JSON")>>
      [] r = "not_authenticated" -> <<ErrorMsg("NOT_AUTHENTICATED")>>
      [] r = "pong" -> <<Pong(f.id)>>
      [] r = "status" -> <<ServerStatus(n)>>
      [] r = "unknown" -> <<ErrorMsg("UNKNOWN_MESSAGE")>>
      [] OTHER -> <<>>

\* The audit entries handleMessage logs on branch r.
Logged(r, f) ==
    CASE r = "invalid_json" -> <<logFailure("message_parse", "Invalid JSON")>>
      [] r = "not_authenticated" -> <<logFailure("unauthorized_message", MsgType(f))>>
      [] OTHER -> <<>>

\* A mutation of Send: the message goes to every open connection.
SendBroadcast(o, w, ms) ==
    [v \in DOMAIN o |-> IF sock[v] = "open" THEN o[v] \o ms ELSE o[v]]

\* send: ws.send on a closed connection delivers nothing.
Send(o, w, ms) == IF sock[w] = "open" THEN [o EXCEPT ![w] = @ \o ms] ELSE o

Handler(f, pc) ==
    [frame |-> f, pc |-> pc, seen |-> Null, result |-> "none", steps |-> 0]

\* websocketHandler.message and handleMessage, up to the await of
\* validateToken for an auth frame and to the end for any other (the await
\* of an audit write is followed by the return alone).  The promise of
\* handleMessage is dropped, so the next frame is delivered whatever the
\* handler still awaits.
Message(w, f) ==
    /\ sock[w] = "open"
    /\ w \in clients
    /\ nframes < MaxFrames
    /\ nframes' = nframes + 1
    /\ LET r == Route(f, authenticated[w]) IN
        /\ h' = [h EXCEPT ![w] = Append(@, Handler(f,
                    CASE r = "auth" -> "validating"
                      [] r = "throw" -> "failed"
                      [] OTHER -> "done"))]
        /\ out' = Send(out, w, Reply(r, f, Cardinality(clients)))
        /\ audit' = [audit EXCEPT ![w] = @ \o Logged(r, f)]
    /\ UNCHANGED <<sock, clients, authenticated, fired, options>>
    /\ UNCHANGED tokenVars
    /\ UNCHANGED serverVars

\* validateToken: the file is read and compared; handleAuth has not resumed.
ValidateRead(w, i) ==
    /\ h[w][i].pc = "validating"
    /\ LET config == loadRemoteConfig(file) IN
        h' = [h EXCEPT ![w][i] =
                [frame |-> h[w][i].frame, pc |-> "validated", seen |-> config,
                 result |-> validateToken(config, h[w][i].frame.token),
                 steps |-> validateTokenSteps(config, h[w][i].frame.token)]]
    /\ UNCHANGED <<sock, clients, authenticated, out, nframes, fired, options, audit>>
    /\ UNCHANGED tokenVars
    /\ UNCHANGED serverVars

\* A mutation of AuthFlag: the flag is assigned the outcome of the validation.
AuthFlagAssign(old, isValid) == isValid

\* clientState.authenticated after handleAuth resumed with isValid.
AuthFlag(old, isValid) == IF isValid THEN TRUE ELSE old

\* handleAuth resumes with the result of validateToken and runs to its end;
\* a rejected validateToken rejects handleAuth.
AuthResume(w, i) ==
    /\ h[w][i].pc = "validated"
    /\ LET res == h[w][i].result IN
        IF res = "throw"
        THEN /\ h' = [h EXCEPT ![w][i] = [@ EXCEPT !.pc = "failed", !.seen = Null, !.steps = 0]]
             /\ UNCHANGED <<authenticated, out, audit>>
        ELSE /\ h' = [h EXCEPT ![w][i] = [@ EXCEPT !.pc = "done", !.seen = Null, !.steps = 0]]
             /\ authenticated' =
                    [authenticated EXCEPT ![w] = AuthFlag(@, res = "true")]
             /\ out' = Send(out, w, <<AuthResponse(res = "true")>>)
             /\ audit' = Push(audit, w, logAuth(res = "true"))
    /\ UNCHANGED <<sock, clients, nframes, fired, options>>
    /\ UNCHANGED tokenVars
    /\ UNCHANGED serverVars

\* ---------------------------------------------------------- specification
\* Calls into the token store: the listen command and createRemoteServer
\* call getOrCreateToken, listen --rotate-token calls rotateToken.
TokenNext(P, Ops) ==
    \/ \E p \in P, op \in Ops : getOrCreateTokenLoad(p, op)
    \/ \E p \in P : rotateTokenLoad(p)
    \/ \E p \in P : saveRemoteConfigOpen(p)
    \/ \E p \in P : saveRemoteConfigWrite(p)

\* The events of the connections in S.
ConnNext(S) ==
    \/ \E w \in S : Open(w)
    \/ \E w \in S : Close(w)
    \/ \E w \in S, f \in Frames : Message(w, f)
    \/ \E w \in S : \E i \in DOMAIN h[w] : ValidateRead(w, i)
    \/ \E w \in S : \E i \in DOMAIN h[w] : AuthResume(w, i)

\* The server with its connections and the token store.  What follows the
\* audit write of start() and stop() (StartDone, StopDone) and the calls they
\* refuse touch no variable read here and are left to SpecLife.
Next ==
    \/ TokenNext({"p1"}, {"goc", "create"})
    \/ \E hasToken \in BOOLEAN : Construct(hasToken)
    \/ Start
    \/ Stop
    \/ ConnNext(Sockets)

Spec == Init /\ [][Next]_vars

\* One run of the server as the listen command runs it (built by
\* createRemoteServer, started once), with a single connection; the token may
\* be rotated meanwhile.
NextOne ==
    \/ TokenNext({"p1"}, {"create"})
    \/ (starts = 0 /\ Start)
    \/ Stop
    \/ ConnNext({"w1"})

SpecOne == Init /\ [][NextOne]_vars

\* The life cycle of the server instance on its own: start() and stop() calls
\* at any time, each resuming after its audit write, and connections that
\* open and close.
NextLife ==
    \/ \E hasToken \in BOOLEAN : Construct(hasToken)
    \/ Start
    \/ StartDone
    \/ StartRunning
    \/ Stop
    \/ StopDone
    \/ StopNotRunning
    \/ \E w \in Sockets : Open(w)
    \/ \E w \in Sockets : Close(w)

SpecLife == Init /\ [][NextLife]_vars

\* The token store on its own: calls of getOrCreateToken and rotateToken by
\* either process, one call at a time, on a file that may be unreadable.
InitToken ==
    /\ file \in {NoFile, Config(S1, 1), Corrupt}
    /\ InitRest

Alone(p) == \A q \in Procs \ {p} : caller[q] = Idle

NextToken ==
    \/ \E p \in Procs : Alone(p) /\ getOrCreateTokenLoad(p, "goc")
    \/ \E p \in Procs : Alone(p) /\ rotateTokenLoad(p)
    \/ \E p \in Procs : saveRemoteConfigOpen(p)
    \/ \E p \in Procs : saveRemoteConfigWrite(p)

SpecToken == InitToken /\ [][NextToken]_vars

\* The token store under concurrent calls: nothing in token.ts makes a call
\* wait for another, so the calls of the two processes interleave at every
\* await.
NextRace ==
    \/ \E p \in Procs : getOrCreateTokenLoad(p, "goc")
    \/ \E p \in Procs : rotateTokenLoad(p)
    \/ \E p \in Procs : saveRemoteConfigOpen(p)
    \/ \E p \in Procs : saveRemoteConfigWrite(p)

SpecRace == InitToken /\ [][NextRace]_vars

\* validateToken on its own: the server runs, one connection has delivered
\* an auth frame carrying any candidate, and the file holds any record.
InitValidate ==
    /\ file \in {NoFile} \cup {Config(t, 1) : t \in Strings(MaxLen)}
    /\ caller = [p \in Procs |-> Idle]
    /\ ret = [p \in Procs |-> NoReturn]
    /\ options = [built |-> TRUE, hasToken |-> TRUE]
    /\ server = TRUE
    /\ host = BindHost(TRUE)
    /\ startedAt = TRUE
    /\ starts = 1
    /\ pending = [start |-> 0, stop |-> 0]
    /\ early = [startThrew |-> 0, stopReturned |-> 0]
    /\ proc = NoSignals
    /\ fired = [onStart |-> 1, onStop |-> 0,
                onConnect |-> [w \in Sockets |-> IF w = "w1" THEN 1 ELSE 0],
                onDisconnect |-> [w \in Sockets |-> 0]]
    /\ sock = [w \in Sockets |-> IF w = "w1" THEN "open" ELSE "new"]
    /\ clients = {"w1"}
    /\ authenticated = [w \in Sockets |-> FALSE]
    /\ \E tok \in Candidates, id \in RequestIds :
        h = [w \in Sockets |->
                IF w = "w1" THEN <<Handler(Env("auth", id, tok), "validating")>>
                ELSE <<>>]
    /\ out = [w \in Sockets |-> <<>>]
    /\ audit = [c \in Sockets \cup {Server} |->
                CASE c = "w1" -> <<logConnection("connect")>>
                  [] c = Server -> <<logServerEvent("start")>>
                  [] OTHER -> <<>>]
    /\ nframes = 1

NextValidate ==
    \/ \E i \in DOMAIN h["w1"] : ValidateRead("w1", i)
    \/ \E i \in DOMAIN h["w1"] : AuthResume("w1", i)

SpecValidate == InitValidate /\ [][NextValidate]_vars

\* Two sessions on one run of the server: the credential exists and does not
\* change, the server is built by createRemoteServer and started once, and
\* requests come under either correlation id.
InitTwo ==
    /\ file = Config(S1, 1)
    /\ caller = [p \in Procs |-> Idle]
    /\ ret = [p \in Procs |-> NoReturn]
    /\ options = createRemoteServer(S1, FALSE)
    /\ server = FALSE
    /\ host = "none"
    /\ startedAt = FALSE
    /\ starts = 0
    /\ pending = [start |-> 0, stop |-> 0]
    /\ early = [startThrew |-> 0, stopReturned |-> 0]
    /\ proc = NoSignals
    /\ fired = [onStart |-> 0, onStop |-> 0,
                onConnect |-> [w \in Sockets |-> 0],
                onDisconnect |-> [w \in Sockets |-> 0]]
    /\ sock = [w \in Sockets |-> "new"]
    /\ clients = {}
    /\ authenticated = [w \in Sockets |-> FALSE]
    /\ h = [w \in Sockets |-> <<>>]
    /\ out = [w \in Sockets |-> <<>>]
    /\ audit = [c \in Sockets \cup {Server} |-> <<>>]
    /\ nframes = 0

NextTwo ==
    \/ (starts = 0 /\ Start)
    \/ Stop
    \/ \E w \in Sockets : Open(w)
    \/ \E w \in Sockets : Close(w)
    \/ \E w \in Sockets, f \in FramesTwo : Message(w, f)
    \/ \E w \in Sockets : \E i \in DOMAIN h[w] : ValidateRead(w, i)
    \/ \E w \in Sockets : \E i \in DOMAIN h[w] : AuthResume(w, i)

SpecTwo == InitTwo /\ [][NextTwo]_vars

\* The listen command from createRemoteServer to the end of the process:
\* one start, the signal handlers, signals at any time, and the sessions.
\* Nothing runs once the process has exited.
NextSignal ==
    \/ (~proc.exited /\ starts = 0 /\ Start)
    \/ (~proc.exited /\ StartDone)
    \/ ListenRegister
    \/ SignalDefault
    \/ SignalShutdown
    \/ SignalShutdownAgain
    \/ (~proc.exited /\ StopDone)
    \/ ShutdownExit
    \/ \E w \in Sockets : ~proc.exited /\ Open(w)
    \/ \E w \in Sockets : ~proc.exited /\ Close(w)
    \/ \E w \in Sockets, f \in Frames : ~proc.exited /\ Message(w, f)
    \/ \E w \in Sockets : \E i \in DOMAIN h[w] : ~proc.exited /\ ValidateRead(w, i)
    \/ \E w \in Sockets : \E i \in DOMAIN h[w] : ~proc.exited /\ AuthResume(w, i)

SpecSignal == InitTwo /\ [][NextSignal]_vars

\* Tokens as generateToken returns them: all characters alike, or one
\* differing at position k.
Fill(k) == [i \in 1..TokenLen |-> IF i = k THEN 2 ELSE 1]
LongTokens == {Fill(0), Fill(1), Fill(PreviewLen + 1)}

\* What the server lets out about the credential: it runs on a generated
\* token, one session has delivered an auth frame carrying a token or none
\* and may send more frames, and getTokenInfo is called.
InitInfo ==
    /\ file \in {Config(t, 1) : t \in LongTokens}
    /\ caller = [p \in Procs |-> Idle]
    /\ ret = [p \in Procs |-> NoReturn]
    /\ options = [built |-> TRUE, hasToken |-> TRUE]
    /\ server = TRUE
    /\ host = BindHost(TRUE)
    /\ startedAt = TRUE
    /\ starts = 1
    /\ pending = [start |-> 0, stop |-> 0]
    /\ early = [startThrew |-> 0, stopReturned |-> 0]
    /\ proc = NoSignals
    /\ fired = [onStart |-> 1, onStop |-> 0,
                onConnect |-> [w \in Sockets |-> IF w = "w1" THEN 1 ELSE 0],
                onDisconnect |-> [w \in Sockets |-> 0]]
    /\ sock = [w \in Sockets |-> IF w = "w1" THEN "open" ELSE "new"]
    /\ clients = {"w1"}
    /\ authenticated = [w \in Sockets |-> FALSE]
    /\ \E tok \in {Str(t) : t \in LongTokens} \cup {Undefined}, id \in RequestIds :
        h = [w \in Sockets |->
                IF w = "w1" THEN <<Handler(Env("auth", id, tok), "validating")>>
                ELSE <<>>]
    /\ out = [w \in Sockets |-> <<>>]
    /\ audit = [c \in Sockets \cup {Server} |->
                CASE c = "w1" -> <<logConnection("connect")>>
                  [] c = Server -> <<logServerEvent("start")>>
                  [] OTHER -> <<>>]
    /\ nframes = 1

NextInfo ==
    \/ \E p \in Procs : getTokenInfo(p)
    \/ \E f \in Frames : Message("w1", f)
    \/ \E i \in DOMAIN h["w1"] : ValidateRead("w1", i)
    \/ \E i \in DOMAIN h["w1"] : AuthResume("w1", i)

SpecInfo == InitInfo /\ [][NextInfo]_vars

\* ----------------------------------------------------------------- claims
IsAuthFrame(f) == f.kind = "env" /\ f.type = "auth"
IsStatusFrame(f) == f.kind = "env" /\ f.type = "status"

\* The handler of frame i of connection w validated the token it carried
\* against a stored secret equal to it.
MatchesSeen(w, i) ==
    /\ HasToken(h[w][i].seen)
    /\ h[w][i].frame.token = Str(h[w][i].seen.token)

\* Frame i of connection w was an auth frame whose validation succeeded.
AuthSucceeded(w, i) ==
    /\ IsAuthFrame(h[w][i].frame)
    /\ h[w][i].pc = "done"
    /\ h[w][i].result = "true"

\* This step delivers frame f to connection w.
Delivers(w) == Len(h'[w]) = Len(h[w]) + 1
Delivered(w) == h'[w][Len(h'[w])].frame

\* This step resumes handleAuth for frame i of connection w.
Resumes(w, i) == h[w][i].pc = "validated" /\ h'[w][i].pc # "validated"

\* This step sends exactly the messages ms to connection w.
Sends(w, ms) == out'[w] = out[w] \o ms
\* This step appends exactly the entries es to the audit log, for client w.
Logs(w, es) == audit'[w] = audit[w] \o es

\* C1: a server_status response is sent to a session only in a step that
\* handles a frame of that session while its authenticated flag is true, and
\* every session that was ever answered with server_status has an auth frame
\* whose validation succeeded.
C1_StatusOnlyWhenAuthenticated ==
    /\ [][\A w \in Sockets :
            (\E k \in DOMAIN out'[w] :
                k > Len(out[w]) /\ out'[w][k].type = "server_status")
                => authenticated[w] /\ Delivers(w)]_vars
    /\ [](\A w \in Sockets :
            (\E k \in DOMAIN out[w] : out[w][k].type = "server_status")
                => \E i \in DOMAIN h[w] : AuthSucceeded(w, i))

C1_Witness ==
    \E w \in Sockets :
        /\ authenticated[w]
        /\ \E k \in DOMAIN out[w] : out[w][k] = ServerStatus(1)

\* C2: the authenticated flag of a session becomes true only in the step
\* that resumes the handler of an auth frame of that session whose token
\* equals the secret the validation read from the credential file (so never
\* when the file held no credential); that step sends
\* auth_response{success:true} and logs an auth success.
C2_AuthenticatedOnlyByValidToken ==
    [][\A w \in Sockets :
        (~authenticated[w] /\ authenticated'[w]) =>
            \E i \in DOMAIN h[w] :
                /\ Resumes(w, i)
                /\ IsAuthFrame(h[w][i].frame)
                /\ MatchesSeen(w, i)
                /\ Logs(w, <<logAuth(TRUE)>>)
                /\ Sends(w, IF sock[w] = "open" THEN <<AuthResponse(TRUE)>> ELSE <<>>)]_vars

C2_Witness ==
    \E w \in Sockets :
        /\ authenticated[w]
        /\ out[w] = <<AuthResponse(TRUE)>>
        /\ audit[w] = <<logConnection("connect"), logAuth(TRUE)>>

\* C3: at most one handler of a session is in progress at a time: a frame of
\* a session is not handled while the handling of an earlier frame of that
\* session has not completed.
C3_OneFrameAtATime ==
    \A w \in Sockets :
        \A i, j \in DOMAIN h[w] :
            (i < j) => h[w][i].pc \in {"done", "failed"}

\* C4: the only session connected sends auth with the correct token and then
\* status: once both are handled the client has received
\* auth_response{success:true} and then server_status with connectedClients 1,
\* and nothing else.
C4_AuthThenStatus ==
    \A w \in Sockets :
        ( /\ sock[w] = "open"
          /\ \A v \in Sockets \ {w} : sock[v] = "new"
          /\ Len(h[w]) = 2
          /\ AuthSucceeded(w, 1)
          /\ IsStatusFrame(h[w][2].frame)
          /\ h[w][2].pc = "done" )
        => out[w] = <<AuthResponse(TRUE), ServerStatus(1)>>

\* C5: handling a well-formed frame whose type is neither auth nor ping on
\* an unauthenticated session sends exactly one error NOT_AUTHENTICATED,
\* logs exactly one failure entry carrying the message type, and leaves the
\* session registered, open and unauthenticated.
C5_UnauthenticatedRequest ==
    [][\A w \in Sockets :
        ( /\ Delivers(w)
          /\ Delivered(w).kind = "env"
          /\ Delivered(w).type \notin {"auth", "ping"}
          /\ ~authenticated[w] )
        => /\ Sends(w, <<ErrorMsg("NOT_AUTHENTICATED")>>)
           /\ Logs(w, <<Entry("unauthorized_message", FALSE, Delivered(w).type)>>)
           /\ ~authenticated'[w]
           /\ sock'[w] = "open"
           /\ w \in clients']_vars

C5_Witness ==
    \E w \in Sockets :
        /\ sock[w] = "open"
        /\ ~authenticated[w]
        /\ out[w] = <<ErrorMsg("NOT_AUTHENTICATED")>>
        /\ audit[w] = <<logConnection("connect"),
                        Entry("unauthorized_message", FALSE, "status")>>

\* C6: when the handler of an auth frame with a string token resumes, a
\* token that is not the secret the validation read yields exactly one
\* auth_response{success:false, error:"Invalid token"} (sent if the
\* connection is still open) and exactly one failed auth entry, and changes
\* neither the authenticated flag nor the connection; a token that is the
\* secret read authenticates the session whatever failed before.
C6_FailedAuthNoLockout ==
    [][\A w \in Sockets : \A i \in DOMAIN h[w] :
        (Resumes(w, i) /\ h[w][i].frame.token.k = "str") =>
            IF MatchesSeen(w, i)
            THEN /\ authenticated'[w]
                 /\ Sends(w, IF sock[w] = "open" THEN <<AuthResponse(TRUE)>> ELSE <<>>)
            ELSE /\ Sends(w, IF sock[w] = "open"
                             THEN <<Msg("auth_response", Fresh, FALSE, "Invalid token", 0)>>
                             ELSE <<>>)
                 /\ Logs(w, <<Entry("auth", FALSE, "Invalid token")>>)
                 /\ authenticated'[w] = authenticated[w]
                 /\ sock'[w] = sock[w]
                 /\ clients' = clients]_vars

C6_Witness ==
    \E w \in Sockets :
        /\ sock[w] = "open"
        /\ authenticated[w]
        /\ out[w] = <<AuthResponse(FALSE), AuthResponse(TRUE)>>
        /\ audit[w] = <<logConnection("connect"), logAuth(FALSE), logAuth(TRUE)>>

\* C7: the authenticated flag is false when the connection is accepted and,
\* once true, stays true in every later step.
C7_AuthenticatedMonotonic ==
    [][\A w \in Sockets :
        /\ authenticated[w] => authenticated'[w]
        /\ (sock[w] = "new" /\ sock'[w] = "open") => ~authenticated'[w]]_vars

C7_Witness ==
    \E w \in Sockets :
        /\ authenticated[w]
        /\ \E j, k \in DOMAIN out[w] :
            j < k /\ out[w][j] = AuthResponse(TRUE) /\ out[w][k] = AuthResponse(FALSE)

\* C8: with no rotation in progress, a status request is served only to a
\* session that authenticated with the secret now stored: a session that
\* authenticated with a secret since rotated away is not served.
C8_RotationRejectsOldSessions ==
    [][\A w \in Sockets :
        ( /\ \A p \in Procs : caller[p].op # "rot"
          /\ file.st = "config"
          /\ Delivers(w)
          /\ \E n \in 0..Cardinality(Sockets) : Sends(w, <<ServerStatus(n)>>) )
        => \E i \in DOMAIN h[w] :
                AuthSucceeded(w, i) /\ h[w][i].frame.token = Str(file.token)]_vars

\* C9: a running server bound to all interfaces has a credential on record.
C9_BindFollowsCredential ==
    (server /\ host = AllInterfaces) => file.st # "absent"

\* C10: a frame that does not parse as an envelope (not JSON, JSON null, a
\* JSON scalar) yields exactly one error INVALID_JSON and one parse-failure
\* audit entry, and leaves the session open with its flag unchanged.
C10_MalformedFrame ==
    [][\A w \in Sockets :
        (Delivers(w) /\ Delivered(w).kind # "env")
        => /\ Sends(w, <<ErrorMsg("INVALID_JSON")>>)
           /\ Logs(w, <<Entry("message_parse", FALSE, "Invalid JSON")>>)
           /\ authenticated'[w] = authenticated[w]
           /\ sock'[w] = "open"]_vars

\* C11: every frame that is a protocol-level error is answered and logged:
\* text that is not JSON, a request on an unauthenticated session and an
\* unknown type on an authenticated session each get one error response and
\* one audit entry with success false, a failed auth gets its failed
\* auth_response and one failed auth entry; neither closes the connection or
\* stops the server.
C11_ProtocolErrorsAnsweredAndLogged ==
    [][\A w \in Sockets :
        /\ ( /\ Delivers(w)
             /\ \/ Delivered(w).kind = "notjson"
                \/ /\ Delivered(w).kind = "env"
                   /\ Delivered(w).type \notin {"auth", "ping"}
                   /\ ~(authenticated[w] /\ Delivered(w).type = "status") )
           => /\ \E code \in {"INVALID_JSON", "NOT_AUTHENTICATED", "UNKNOWN_MESSAGE"} :
                    Sends(w, <<ErrorMsg(code)>>)
              /\ Len(audit'[w]) = Len(audit[w]) + 1
              /\ ~audit'[w][Len(audit'[w])].success
              /\ sock'[w] = "open"
              /\ server' = server
        /\ \A i \in DOMAIN h[w] :
             (Resumes(w, i) /\ h[w][i].result = "false")
             => /\ Sends(w, IF sock[w] = "open" THEN <<AuthResponse(FALSE)>> ELSE <<>>)
                /\ Logs(w, <<logAuth(FALSE)>>)
                /\ sock'[w] = sock[w]
                /\ server' = server]_vars

\* A candidate that is no usable token: missing, not a string, or empty.
Malformed(tok) == tok.k # "str" \/ tok.chars = <<>>

\* C12: validateToken never raises on a malformed candidate: it returns
\* false, and the auth frame that carried the candidate is answered with
\* auth_response{success:false} when its handler has ended.
C12_ValidateNeverRaises ==
    \A w \in Sockets : \A i \in DOMAIN h[w] :
        (IsAuthFrame(h[w][i].frame) /\ Malformed(h[w][i].frame.token)) =>
            /\ h[w][i].pc = "validated" => h[w][i].result = "false"
            /\ h[w][i].pc # "failed"
            /\ (h[w][i].pc = "done" /\ sock[w] = "open")
                => \E k \in DOMAIN out[w] : out[w][k] = AuthResponse(FALSE)

\* C13: with a secret stored, validateToken of a string candidate is true
\* exactly when the candidate equals the secret, whatever their lengths.
C13_ValidateIffEqual ==
    \A w \in Sockets : \A i \in DOMAIN h[w] :
        ( /\ h[w][i].pc = "validated"
          /\ HasToken(h[w][i].seen)
          /\ h[w][i].frame.token.k = "str" )
        => (h[w][i].result = "true" <=> h[w][i].frame.token.chars = h[w][i].seen.token)

\* A candidate of the secret's length that differs from it in one position
\* only was refused.
C13_Witness ==
    \E w \in Sockets : \E i \in DOMAIN h[w] :
        LET c == h[w][i].frame.token.chars
            t == h[w][i].seen.token IN
        /\ h[w][i].pc = "validated"
        /\ HasToken(h[w][i].seen)
        /\ h[w][i].frame.token.k = "str"
        /\ Len(c) = Len(t)
        /\ Cardinality({j \in 1..Len(t) : c[j] # t[j]}) = 1
        /\ h[w][i].result = "false"

\* The version a rotation must write over the record r.
Successor(r) == (IF r.st = "config" THEN r.version ELSE 0) + 1

\* C14: a rotateToken call computes the version of the record it read plus
\* one (1 when there was none), the record is still that one when the save
\* begins, and when the call returns token S2 the file holds exactly the
\* record (S2, that version): validateToken is then true for S2 and false
\* for every other token.
C14_RotateReplacesSecret ==
    /\ [][\A p \in Procs :
            /\ (caller[p] = Idle /\ caller'[p].op = "rot")
                => caller'[p].version = Successor(file)
            /\ (caller[p].op = "rot" /\ caller[p].pc = "write" /\ caller'[p] = Idle)
                => /\ ret'[p].op = "rot"
                   /\ file' = Config(ret'[p].token, caller[p].version)
                   /\ \A t \in GenTokens :
                        validateToken(loadRemoteConfig(file'), Str(t)) =
                            (IF t = ret'[p].token THEN "true" ELSE "false")]_vars
    /\ [](\A p \in Procs :
            (caller[p].op = "rot" /\ caller[p].pc = "save")
                => caller[p].version = Successor(file))

\* One process was handed S1 by getOrCreateToken, the other then rotated to
\* S2, stored at version 2.
C14_Witness ==
    \E p, q \in Procs :
        /\ ret[q] = Returned("goc", S1, FALSE)
        /\ ret[p] = Returned("rot", S2, TRUE)
        /\ file = Config(S2, 2)
        /\ \A r \in Procs : caller[r] = Idle

\* C15: getOrCreateToken goes on to write only when it found no record; a
\* call that returns isNew=true has stored its token at version 1, a call
\* that returns isNew=false returns the stored token and leaves the record
\* unchanged; the returned token validates.
C15_GetOrCreateIdempotent ==
    [][\A p \in Procs :
        /\ (caller[p] = Idle /\ caller'[p].op = "goc") => file.st # "config"
        /\ (ret'[p] # ret[p] /\ ret'[p].op = "goc") =>
            /\ validateToken(loadRemoteConfig(file'), Str(ret'[p].token)) = "true"
            /\ IF ret'[p].isNew
               THEN file' = Config(ret'[p].token, 1)
               ELSE file' = file /\ file.st = "config" /\ file.token = ret'[p].token]_vars

\* A first call created the record and a later call by the other process
\* found it.
C15_Witness ==
    \E p, q \in Procs : \E t \in GenTokens :
        /\ ret[p] = Returned("goc", t, TRUE)
        /\ ret[q] = Returned("goc", t, FALSE)
        /\ file = Config(t, 1)

\* C16: a stored record has a non-empty secret and a version of at least 1,
\* and a record is overwritten only by one of a strictly greater version, so
\* the version never decreases and none is used for two secrets.
C16_VersionStrictlyIncreases ==
    /\ [](file.st = "config" => (Len(file.token) > 0 /\ file.version >= 1))
    /\ [][\A p \in Procs :
            /\ (caller[p].pc = "save" /\ caller'[p].pc = "write" /\ file.st = "config")
                => caller[p].version > file.version
            /\ (caller[p].pc = "write" /\ caller'[p] = Idle)
                => file'.version = caller[p].version]_vars

\* The record was rotated once: version 2 is stored.
C16_Witness ==
    /\ file.st = "config"
    /\ file.version = 2
    /\ \E p \in Procs : ret[p] = Returned("rot", file.token, TRUE)

\* C17: a credential file that exists but cannot be read is not treated as
\* absent: no call replaces it.
C17_UnreadableFileNotReplaced ==
    [][file.st = "corrupt" => file'.st = "corrupt"]_vars

\* The number of entries of the given action in a log.
CountOf(log, action) == Cardinality({k \in DOMAIN log : log[k].action = action})

\* C18: while the instance is running no start() succeeds: no step taken
\* with the server set binds again, changes startedAt, the host or the
\* registry size reported by getState, or appends a start entry, and a
\* start() that throws changes nothing; every start entry and every onStart
\* call belongs to a start() that found the instance not running.
C18_StartWhileRunningFails ==
    /\ [][server =>
            /\ starts' = starts
            /\ startedAt' = startedAt
            /\ server' => host' = host
            /\ pending'.start <= pending.start
            /\ CountOf(audit'[Server], "start") = CountOf(audit[Server], "start")]_vars
    /\ [][early'.startThrew # early.startThrew =>
            /\ getState' = getState
            /\ UNCHANGED <<server, host, startedAt, clients, sock, audit, fired, pending>>]_vars
    /\ [](/\ CountOf(audit[Server], "start") = starts
          /\ fired.onStart + pending.start = starts)

\* A second start() was refused while the first one awaited its audit write.
C18_Witness ==
    /\ server
    /\ pending.start = 1
    /\ fired.onStart = 0
    /\ early.startThrew = 1
    /\ getState.running

\* C19: a stop() of a running server closes every registered session,
\* empties the registry, releases the socket and appends one stop entry,
\* after which getState reports not-running and onStop is called once; while
\* the instance is not running no step closes a session, changes the
\* registry or appends a stop entry, and a stop() that returns at once
\* changes nothing.
C19_StopIdempotent ==
    /\ [][(server /\ ~server') =>
            /\ clients' = {}
            /\ \A w \in clients : sock'[w] = "closed"
            /\ audit'[Server] = Append(audit[Server], logServerEvent("stop"))
            /\ pending'.stop = pending.stop + 1
            /\ getState' = NoState]_vars
    /\ [][~server =>
            /\ CountOf(audit'[Server], "stop") = CountOf(audit[Server], "stop")
            /\ pending'.stop <= pending.stop
            /\ clients' = clients
            /\ sock' = sock]_vars
    /\ [][early'.stopReturned # early.stopReturned =>
            UNCHANGED <<server, host, startedAt, clients, sock, audit, fired, pending>>]_vars
    /\ [](/\ fired.onStop + pending.stop = CountOf(audit[Server], "stop")
          /\ CountOf(audit[Server], "stop") <= starts)

\* A second stop() returned at once while the first one awaited its audit
\* write, after a session had been closed by the first.
C19_Witness ==
    /\ ~server
    /\ pending.stop = 1
    /\ fired.onStop = 0
    /\ early.stopReturned = 1
    /\ CountOf(audit[Server], "stop") = 1
    /\ \E w \in Sockets : sock[w] = "closed" /\ fired.onDisconnect[w] = 1

\* C20: an accepted session has one connect entry and one onConnect call; it
\* is registered exactly while open; once closed, by the peer or by stop(),
\* it has exactly one disconnect entry and one onDisconnect call, and none
\* before.
C20_CloseNotifiesOnce ==
    \A w \in Sockets :
        /\ w \in clients <=> sock[w] = "open"
        /\ CountOf(audit[w], "connect") = (IF sock[w] = "new" THEN 0 ELSE 1)
        /\ fired.onConnect[w] = (IF sock[w] = "new" THEN 0 ELSE 1)
        /\ CountOf(audit[w], "disconnect") = (IF sock[w] = "closed" THEN 1 ELSE 0)
        /\ fired.onDisconnect[w] = (IF sock[w] = "closed" THEN 1 ELSE 0)

\* One session was closed by its peer and another by stop().
C20_Witness ==
    /\ ~server
    /\ sock["w1"] = "closed"
    /\ sock["w2"] = "closed"
    /\ audit["w1"] = <<logConnection("connect"), logConnection("disconnect")>>
    /\ audit["w2"] = <<logConnection("connect"), logConnection("disconnect")>>
    /\ fired.onDisconnect = [w \in Sockets |-> 1]
    /\ CountOf(audit[Server], "stop") = 1

\* The sessions opened and not yet closed.
OpenSessions == {w \in Sockets : sock[w] = "open"}

\* The messages this step sends to connection w.
Sent(w) == SubSeq(out'[w], Len(out[w]) + 1, Len(out'[w]))

\* C21: while the server runs, getState().connectedClients equals the number
\* of sessions opened and not yet closed, and so does connectedClients of
\* every server_status sent; it is 0 right after start.
C21_ConnectedClientsCount ==
    /\ [](server => getState.connectedClients = Cardinality(OpenSessions))
    /\ [][/\ \A w \in Sockets : \A k \in DOMAIN Sent(w) :
                Sent(w)[k].type = "server_status"
                    => Sent(w)[k].clients = Cardinality(OpenSessions)
          /\ (~server /\ server') =>
                getState'.connectedClients = 0 /\ OpenSessions' = {}]_vars

\* Two sessions were opened and the first one closed before the second was
\* told the number of connected clients, which is 1.
C21_Witness ==
    /\ sock["w1"] = "closed"
    /\ sock["w2"] = "open"
    /\ getState.connectedClients = 1
    /\ \E k \in DOMAIN out["w2"] : out["w2"][k] = ServerStatus(1)

IsPingFrame(f) == f.kind = "env" /\ f.type = "ping"

\* C22: a ping frame with id X, in a session authenticated or not, is
\* answered within the step that delivers it by exactly one pong with id X;
\* no flag, the registry and the audit log do not change, and no other
\* session is sent anything.
C22_PingAnsweredByPong ==
    [][\A w \in Sockets :
        Delivers(w) /\ IsPingFrame(Delivered(w)) =>
            /\ Len(Sent(w)) = 1
            /\ Sent(w)[1].type = "pong"
            /\ Sent(w)[1].id = Delivered(w).id
            /\ h'[w][Len(h'[w])].pc = "done"
            /\ \A v \in Sockets \ {w} : out'[v] = out[v]
            /\ authenticated' = authenticated
            /\ clients' = clients
            /\ audit' = audit]_vars

\* An authenticated session sent a ping under the second correlation id and
\* received the pong carrying it; nothing but its connection and its
\* authentication is in the audit log.
C22_Witness ==
    /\ authenticated["w1"]
    /\ out["w1"] = <<AuthResponse(TRUE), Pong("r2")>>
    /\ audit["w1"] = <<logConnection("connect"), logAuth(TRUE)>>

\* C23: every response carries the id of the request it answers: pong and
\* server_status that of the frame just delivered, auth_response that of the
\* auth frame whose handler resumes.
C23_ResponsesCarryRequestId ==
    [][\A w \in Sockets :
        /\ Delivers(w) =>
            \A k \in DOMAIN Sent(w) :
                Sent(w)[k].type \in {"pong", "server_status"}
                    => Sent(w)[k].id = Delivered(w).id
        /\ \A i \in DOMAIN h[w] :
            Resumes(w, i) =>
                \A k \in DOMAIN Sent(w) :
                    Sent(w)[k].type = "auth_response"
                        => Sent(w)[k].id = h[w][i].frame.id]_vars

\* Sequence s has t as a contiguous part.
Contains(s, t) ==
    \E i \in 1..(Len(s) - Len(t) + 1) : SubSeq(s, i, i + Len(t) - 1) = t

\* The texts a message or an audit entry may carry besides the correlation
\* id and the counts: none is made from a token.
PlainTexts ==
    {"-", "Invalid token", "Invalid JSON", "INVALID_JSON", "NOT_AUTHENTICATED",
     "UNKNOWN_MESSAGE", "auth", "ping", "status", "other", "undefined"}

\* C24: the stored secret is never let out: every message sent and every
\* audit entry carries only fixed texts, no part of it made from the stored
\* or a presented token, and the preview getTokenInfo returns is the first
\* PreviewLen characters of the secret followed by '...', of fixed length and
\* not containing the secret.
C24_SecretNotDisclosed ==
    /\ \A w \in Sockets : \A k \in DOMAIN out[w] :
        /\ DOMAIN out[w][k] = {"type", "id", "ok", "code", "clients"}
        /\ out[w][k].code \in PlainTexts
        /\ out[w][k].id \in RequestIds \cup {Fresh}
    /\ \A c \in DOMAIN audit : \A k \in DOMAIN audit[c] :
        /\ DOMAIN audit[c][k] = {"action", "success", "detail"}
        /\ audit[c][k].detail \in PlainTexts
    /\ \A p \in Procs :
        ret[p].op = "info" /\ ret[p].isNew =>
            /\ Len(ret[p].token) = PreviewLen + Len(Ellipsis)
            /\ ret[p].token = SubSeq(file.token, 1, PreviewLen) \o Ellipsis
            /\ ~Contains(ret[p].token, file.token)

\* The session presented the stored token and was answered, and getTokenInfo
\* returned a preview that another generated token shares.
C24_Witness ==
    /\ file.token = Fill(PreviewLen + 1)
    /\ out["w1"] # <<>>
    /\ out["w1"][1] = AuthResponse(TRUE)
    /\ ret["p1"] = Returned("info", Preview(Fill(0)), TRUE)

\* C25: concurrent calls of rotateToken and getOrCreateToken end as some
\* sequential order of them would: once two rotations have returned, the
\* version has advanced twice, and of two getOrCreateToken calls at most one
\* reports having created the record.
C25_ConcurrentCallsSerialized ==
    \A p \in Procs : \A q \in Procs \ {p} :
        caller[p] = Idle /\ caller[q] = Idle =>
            /\ ret[p].op = "rot" /\ ret[q].op = "rot" =>
                /\ file.st = "config"
                /\ file.version >= 2
                /\ file.token \in {ret[p].token, ret[q].token}
            /\ ret[p].op = "goc" /\ ret[q].op = "goc" =>
                ~(ret[p].isNew /\ ret[q].isNew)

\* C26: the credential file is replaced atomically: no read finds it empty
\* while a write is in progress, and getOrCreateToken never goes on to
\* generate a credential while another call's write is in flight.
C26_FileReplacedAtomically ==
    /\ [](file.st # "truncated")
    /\ [][\A p \in Procs :
            caller[p] = Idle /\ caller'[p].op = "goc" =>
                \A q \in Procs \ {p} : caller[q].pc # "write"]_vars

Max(a, b) == IF a < b THEN b ELSE a

\* C27: for a stored secret, validateToken performs as many comparison steps
\* as the longer of the candidate and the stored secret has characters,
\* whatever the candidate, and still returns false when the lengths differ.
C27_ValidateStepsLongerLength ==
    \A w \in Sockets : \A i \in DOMAIN h[w] :
        LET hd == h[w][i] IN
        (hd.pc = "validated" /\ HasToken(hd.seen) /\ hd.frame.token.k = "str") =>
            /\ hd.steps = Max(Len(hd.frame.token.chars), Len(hd.seen.token))
            /\ Len(hd.frame.token.chars) # Len(hd.seen.token) => hd.result = "false"

\* C28: when the process has exited after a SIGINT or SIGTERM received once
\* the server had started, stop() has run to completion: the server is
\* stopped, no session is open, the stop entry is in the audit log and its
\* write has been awaited.
C28_StopCompletesBeforeExit ==
    (proc.exited /\ starts > 0) =>
        /\ ~server
        /\ OpenSessions = {}
        /\ CountOf(audit[Server], "stop") = 1
        /\ pending.stop = 0
        /\ fired.onStop = 1

\* This step runs a handler of session w: a frame is delivered, or the
\* handler of one is resumed.
Handles(w) == h'[w] # h[w]

\* C29: authentication is per session: a step that handles a frame of one
\* session changes no other session's flag, output, handlers or audit
\* entries; the answer to a frame is fixed by that frame, the session's own
\* flag and the size of the registry, and the answer to an auth frame by the
\* token it carries and the stored credential.
C29_SessionsIndependent ==
    [][\A a \in Sockets :
        /\ Handles(a) =>
            \A b \in Sockets \ {a} :
                /\ authenticated'[b] = authenticated[b]
                /\ out'[b] = out[b]
                /\ h'[b] = h[b]
                /\ audit'[b] = audit[b]
        /\ Delivers(a) =>
            Sent(a) = Reply(Route(Delivered(a), authenticated[a]), Delivered(a),
                            Cardinality(OpenSessions))
        /\ \A i \in DOMAIN h[a] :
            Resumes(a, i) /\ sock[a] = "open" /\ h[a][i].frame.token # Undefined =>
                /\ Len(Sent(a)) = 1
                /\ Sent(a)[1].type = "auth_response"
                /\ Sent(a)[1].ok = (h[a][i].frame.token = Str(file.token))
                /\ authenticated'[a] = (authenticated[a] \/ Sent(a)[1].ok)]_vars

\* Both sessions are open; the first authenticated, the second did not and
\* had its request refused.
C29_Witness ==
    /\ sock["w1"] = "open" /\ sock["w2"] = "open"
    /\ authenticated["w1"] /\ ~authenticated["w2"]
    /\ out["w1"] = <<AuthResponse(TRUE)>>
    /\ out["w2"] = <<ErrorMsg("NOT_AUTHENTICATED")>>

\* C30: a closed session is terminal: no later step reopens it, changes its
\* authenticated flag, sends to it or appends an audit entry for it, also
\* when an auth frame of it was still being validated at the close.
C30_ClosedIsTerminal ==
    [][\A w \in Sockets :
        sock[w] = "closed" =>
            /\ sock'[w] = "closed"
            /\ authenticated'[w] = authenticated[w]
            /\ out'[w] = out[w]
            /\ audit'[w] = audit[w]]_vars

====
